---- MODULE Spec2Model ----
(***************************************************************************)
(* Storage listing (internal/storage/ls/ls.go): address parsing, the       *)
(* bucket/prefix split, the single-level paginated listing and the         *)
(* recursive walk that drives it from a work queue.                        *)
(*                                                                         *)
(* Strings are sequences of one-character strings, so that prefix, suffix, *)
(* index and slice operations are computed as the Go code computes them.   *)
(***************************************************************************)
EXTENDS Integers, Sequences, FiniteSets, TLC

\* ------------------------------------------------------------------------
\* Bounds of the explored backend namespaces
\* ------------------------------------------------------------------------
\* largest number of buckets the backend holds
MaxBuckets == 2
\* largest number of entries in one directory
MaxEntries == 3
\* largest number of objects and folder markers in the whole namespace
MaxNodes == 4
\* deepest folder nesting below a bucket root
MaxDepth == 2

\* ------------------------------------------------------------------------
\* Go string primitives (package strings, package path, slicing)
\* ------------------------------------------------------------------------
Min(a, b) == IF a < b THEN a ELSE b

\* s[from:to], zero-based and half-open as a Go slice expression
Slice(s, from, to) == SubSeq(s, from + 1, to)

\* strings.HasPrefix
HasPrefix(s, p) == Len(p) <= Len(s) /\ SubSeq(s, 1, Len(p)) = p

\* strings.HasSuffix
HasSuffix(s, p) == Len(p) <= Len(s) /\ SubSeq(s, Len(s) - Len(p) + 1, Len(s)) = p

\* strings.IndexByte: zero-based index of the first c in s, -1 when absent
IndexByte(s, c) ==
    IF \E i \in 1..Len(s) : s[i] = c
    THEN (CHOOSE i \in 1..Len(s) : s[i] = c /\ \A j \in 1..(i - 1) : s[j] # c) - 1
    ELSE -1

\* strings.LastIndex for a one-byte separator
LastIndexByte(s, c) ==
    IF \E i \in 1..Len(s) : s[i] = c
    THEN (CHOOSE i \in 1..Len(s) : s[i] = c /\ \A j \in (i + 1)..Len(s) : s[j] # c) - 1
    ELSE -1

\* path.Split: the directory part of p, up to and including the last slash
PathSplitDir(p) == Slice(p, 0, LastIndexByte(p, "/") + 1)

\* path.Split: the file part of p, after the last slash
PathSplitFile(p) == Slice(p, LastIndexByte(p, "/") + 1, Len(p))

\* strings.ToLower on the letters the addresses use
LowerChar(c) == IF c = "S" THEN "s" ELSE IF c = "T" THEN "t" ELSE c

ToLower(s) == [i \in 1..Len(s) |-> LowerChar(s[i])]

\* ------------------------------------------------------------------------
\* SplitBucketPrefix
\* ------------------------------------------------------------------------
\* a split that keeps the leading separator
SplitStart_NoStrip(objectPath) == 0

SplitStart(objectPath) == IF objectPath[1] = "/" THEN 1 ELSE 0

SplitBucketPrefix(objectPath) ==
    IF objectPath = <<>> \/ objectPath = <<"/">>
    THEN [bucket |-> <<>>, prefix |-> <<>>]
    ELSE LET start == SplitStart(objectPath)
             sep   == IndexByte(Slice(objectPath, start, Len(objectPath)), "/")
         IN  IF sep < 0
             THEN [bucket |-> Slice(objectPath, start, Len(objectPath)), prefix |-> <<>>]
             ELSE [bucket |-> Slice(objectPath, start, sep + start),
                   prefix |-> Slice(objectPath, sep + start + 1, Len(objectPath))]

\* ------------------------------------------------------------------------
\* The backend namespace: an ordered list of buckets, each holding an
\* ordered tree of entries.  An entry is a stored object (Id = TRUE, the
\* backend reports an identifier) or a folder marker (Id = FALSE) with the
\* listing of the folder in Sub.  Entry names never contain the separator.
\* ------------------------------------------------------------------------
BucketNameAt == << <<"a">>, <<"a", "b">>, <<"b">>, <<"c">> >>

ObjectNameAt == << <<"x">>, <<"x", "y">>, <<"y">>, <<"z">>, <<"w">> >>

RECURSIVE Size(_)
Size(listing) ==
    IF listing = <<>> THEN 0
    ELSE 1 + Size(listing[1].Sub) + Size(Tail(listing))

\* the listings of depth at most d with at most n nodes, named from position p on
RECURSIVE Forest(_, _, _)
Forest(d, n, p) ==
    IF n = 0 \/ p > MaxEntries THEN {<<>>}
    ELSE {<<>>}
         \cup { <<[Name |-> ObjectNameAt[p], Id |-> TRUE, Sub |-> <<>>]>> \o r :
                    r \in Forest(d, n - 1, p + 1) }
         \cup UNION { { <<[Name |-> ObjectNameAt[p], Id |-> FALSE, Sub |-> s]>> \o r :
                          r \in Forest(d, n - 1 - Size(s), p + 1) } :
                      s \in (IF d = 0 THEN {<<>>} ELSE Forest(d - 1, n - 1, 1)) }

\* the bucket lists with at most n nodes in all, named from position p on
RECURSIVE BucketLists(_, _)
BucketLists(n, p) ==
    IF p > MaxBuckets THEN {<<>>}
    ELSE {<<>>}
         \cup UNION { { <<[Name |-> BucketNameAt[p], Objects |-> t]>> \o r :
                          r \in BucketLists(n - Size(t), p + 1) } :
                      t \in Forest(MaxDepth, n, 1) }

Namespaces == BucketLists(MaxNodes, 1)

\* ------------------------------------------------------------------------
\* Backend client (package client): listBuckets and the paginated
\* listObjects.  listObjects splits the prefix into the folder to list and
\* a name to search for, and returns the page-th window of the matches.
\* ------------------------------------------------------------------------
\* the page size of listObjects, scaled down so that full pages occur
PAGE_LIMIT == 2

\* the folder listing reached from listing by following the folder path dir
RECURSIVE Navigate(_, _)
Navigate(listing, dir) ==
    IF dir = <<>> THEN listing
    ELSE LET sep  == IndexByte(dir, "/")
             seg  == Slice(dir, 0, sep)
             rest == Slice(dir, sep + 1, Len(dir))
             hit  == SelectSeq(listing, LAMBDA e : e.Name = seg /\ ~e.Id)
         IN  IF hit = <<>> THEN <<>> ELSE Navigate(hit[1].Sub, rest)

ListStorageBuckets(namespace) == [i \in 1..Len(namespace) |-> [Name |-> namespace[i].Name]]

\* every match of the query, before pagination
ListAllObjects(namespace, bucket, prefix) ==
    LET hit == SelectSeq(namespace, LAMBDA b : b.Name = bucket)
    IN  IF hit = <<>> THEN <<>>
        ELSE LET folder == Navigate(hit[1].Objects, PathSplitDir(prefix))
                 found  == SelectSeq(folder, LAMBDA e : HasPrefix(e.Name, PathSplitFile(prefix)))
             IN  [i \in 1..Len(found) |-> [Name |-> found[i].Name, Id |-> found[i].Id]]

ListStorageObjects(namespace, bucket, prefix, page) ==
    LET all == ListAllObjects(namespace, bucket, prefix)
    IN  SubSeq(all, PAGE_LIMIT * page + 1, Min(PAGE_LIMIT * (page + 1), Len(all)))

\* ------------------------------------------------------------------------
\* url.Parse, for addresses without query, fragment, escapes or userinfo
\* ------------------------------------------------------------------------
Letters == {"s", "S", "t", "T", "a", "b", "x", "y"}

\* the length of the leading run of letters of raw
RECURSIVE LetterRun(_)
LetterRun(raw) ==
    IF raw = <<>> \/ raw[1] \notin Letters THEN 0 ELSE 1 + LetterRun(Tail(raw))

\* getScheme: the scheme before the first colon, when only letters precede it
GetScheme(raw) ==
    LET n == LetterRun(raw)
    IN  IF n < Len(raw) /\ raw[n + 1] = ":"
        THEN IF n = 0
             THEN [err |-> "errParse", scheme |-> <<>>, rest |-> <<>>]
             ELSE [err |-> "nil", scheme |-> Slice(raw, 0, n), rest |-> Slice(raw, n + 1, Len(raw))]
        ELSE [err |-> "nil", scheme |-> <<>>, rest |-> raw]

UrlParse(raw) ==
    LET g == GetScheme(raw)
    IN  IF g.err # "nil" THEN [err |-> g.err, Scheme |-> <<>>, Host |-> <<>>, Path |-> <<>>]
        ELSE LET scheme == ToLower(g.scheme)
                 rest   == g.rest
             IN  IF ~HasPrefix(rest, <<"/">>)
                 THEN IF scheme # <<>>
                      THEN \* a rootless path after a scheme is opaque
                           [err |-> "nil", Scheme |-> scheme, Host |-> <<>>, Path |-> <<>>]
                      ELSE IF IndexByte(Slice(rest, 0, IF IndexByte(rest, "/") < 0 THEN Len(rest)
                                                       ELSE IndexByte(rest, "/")), ":") >= 0
                           THEN [err |-> "errParse", Scheme |-> <<>>, Host |-> <<>>, Path |-> <<>>]
                           ELSE [err |-> "nil", Scheme |-> scheme, Host |-> <<>>, Path |-> rest]
                 ELSE IF (scheme # <<>> \/ ~HasPrefix(rest, <<"/", "/", "/">>))
                         /\ HasPrefix(rest, <<"/", "/">>)
                      THEN LET auth == Slice(rest, 2, Len(rest))
                               i    == IndexByte(auth, "/")
                           IN  IF i >= 0
                               THEN [err |-> "nil", Scheme |-> scheme,
                                     Host |-> Slice(auth, 0, i), Path |-> Slice(auth, i, Len(auth))]
                               ELSE [err |-> "nil", Scheme |-> scheme, Host |-> auth, Path |-> <<>>]
                      ELSE [err |-> "nil", Scheme |-> scheme, Host |-> <<>>, Path |-> rest]

\* ------------------------------------------------------------------------
\* ParseStorageURL
\* ------------------------------------------------------------------------
STORAGE_SCHEME == <<"s", "s">>

\* a parser that forgets the host check
ParseStorageURL_NoHostCheck(objectPath) ==
    LET parsed == UrlParse(objectPath)
    IN  IF parsed.err # "nil" THEN [path |-> <<>>, err |-> parsed.err]
        ELSE IF ToLower(parsed.Scheme) # STORAGE_SCHEME \/ Len(parsed.Path) = 0
             THEN [path |-> <<>>, err |-> "errInvalidURL"]
             ELSE [path |-> parsed.Path, err |-> "nil"]

ParseStorageURL(objectPath) ==
    LET parsed == UrlParse(objectPath)
    IN  IF parsed.err # "nil" THEN [path |-> <<>>, err |-> parsed.err]
        ELSE IF ToLower(parsed.Scheme) # STORAGE_SCHEME \/ Len(parsed.Path) = 0 \/ Len(parsed.Host) > 0
             THEN [path |-> <<>>, err |-> "errInvalidURL"]
             ELSE [path |-> parsed.Path, err |-> "nil"]

\* ------------------------------------------------------------------------
\* Inputs
\* ------------------------------------------------------------------------
\* addresses handed to Run
Addresses ==
    { <<"s", "s", ":", "/", "/", "/">>,                        \* ss:///
      <<"s", "s", ":", "/", "/", "/", "a">>,                   \* ss:///a
      <<"s", "s", ":", "/", "/", "/", "a", "/">>,              \* ss:///a/
      <<"s", "s", ":", "/", "/", "/", "a", "/", "x">>,         \* ss:///a/x
      <<"s", "s", ":", "/", "a", "/", "x", "/">>,              \* ss:/a/x/
      <<"S", "s", ":", "/", "/", "/", "a", "b">>,              \* Ss:///ab
      <<"s", "t", ":", "/", "/", "/", "a", "/">>,              \* st:///a/
      <<"s", "s", ":", "/", "/", "a", "/", "a", "/">>,         \* ss://a/a/
      <<"s", "s", ":", "/", "/", "a">>,                        \* ss://a
      <<"s", "s", ":">>,                                       \* ss:
      <<"s", "s", ":", "/", "/">>,                             \* ss://
      <<"s", "s", ":", "a", "/">>,                             \* ss:a/
      <<"/", "a", "/">>,                                       \* /a/
      <<"/", "/", "a", "/", "a">>,                             \* //a/a
      <<":", "/", "/", "/", "a", "/">>,                        \* :///a/
      <<>> }

\* paths handed straight to IterateStoragePaths and IterateStoragePathsAll
DirectPaths == { <<>>, <<"a", "/">> }

\* ------------------------------------------------------------------------
\* IterateStoragePaths: pure parts
\* ------------------------------------------------------------------------
\* a branch condition that forgets the path without a trailing separator
IsBucketListing_EmptyBucketOnly(bucket, prefix, path) == Len(bucket) = 0

\* the condition that selects the bucket listing
IsBucketListing(bucket, prefix, path) ==
    Len(bucket) = 0 \/ (Len(prefix) = 0 /\ ~HasSuffix(path, <<"/">>))

\* the names the bucket branch passes to the callback
BucketEntryNames(buckets, bucket) ==
    LET match == SelectSeq(buckets, LAMBDA b : HasPrefix(b.Name, bucket))
    IN  [i \in 1..Len(match) |-> match[i].Name \o <<"/">>]

\* the name the object branch passes to the callback for one object
ObjectEntryName(o) == IF ~o.Id THEN o.Name \o <<"/">> ELSE o.Name

\* a page handed to the callback last entry first
ObjectEntryNames_Reversed(objects) ==
    [i \in 1..Len(objects) |-> ObjectEntryName(objects[Len(objects) + 1 - i])]

ObjectEntryNames(objects) == [i \in 1..Len(objects) |-> ObjectEntryName(objects[i])]

\* a listing that never asks for a further page
NextPages_NoAdvance(pages, n) == pages

\* a listing that asks for a further page after every non-empty page
NextPages_WhileNonEmpty(pages, n) == IF n > 0 THEN pages + 1 ELSE pages

\* a listing that gives up after three pages
NextPages_Capped(pages, n) == IF n = PAGE_LIMIT /\ pages < 3 THEN pages + 1 ELSE pages

\* the page count after a page of n objects
NextPages(pages, n) == IF n = PAGE_LIMIT THEN pages + 1 ELSE pages

\* the local variables of one call of IterateStoragePaths
Frame(path) ==
    LET bp == SplitBucketPrefix(path)
    IN  [remotePath |-> path, bucket |-> bp.bucket, prefix |-> bp.prefix,
         pages |-> 1, i |-> 0, names |-> <<>>, k |-> 0, n |-> 0]

NoFrame == Frame(<<>>)

\* ------------------------------------------------------------------------
\* IterateStoragePathsAll: pure parts
\* ------------------------------------------------------------------------
\* a base that is the start path itself, whatever its last character
BasePath_Whole(path) == path

BasePath(path) == IF ~HasSuffix(path, <<"/">>) THEN PathSplitDir(path) ELSE path

\* a walk that takes every entry for a leaf
IsDirName_Never(objectName) == FALSE

\* the callbacks of the walk take a name ending in the separator for a directory
IsDirName(objectName) == HasSuffix(objectName, <<"/">>)

\* the queue position the drain loop takes the next directory from
DirQueuePick(q) == Len(q)

\* a queue that loses the directory before the one taken as well
DirQueueRest_DropTwo(q) == SubSeq(q, 1, Len(q) - 2)

\* the queue after the directory at DirQueuePick was taken
DirQueueRest(q) == SubSeq(q, 1, Len(q) - 1)

\* a report for every empty listing, whatever the prefix
ReportsEmpty_AnyPrefix(isEmpty, prefix) == isEmpty

\* the condition for reporting an empty bucket
ReportsEmpty(isEmpty, prefix) == isEmpty /\ Len(prefix) = 0

\* ------------------------------------------------------------------------
\* State
\* ------------------------------------------------------------------------
VARIABLES
    ns,          \* the backend namespace
    entry,       \* "Run", or "direct" for a call of the iterators themselves
    objectPath,  \* the address given to Run
    recursive,   \* Run's flag, or which iterator is called directly
    pc,          \* position in the code
    result,      \* the returned error, "nil" for none, "running" before the return
    remotePath,  \* argument of the outermost iterator
    basePath,    \* IterateStoragePathsAll
    dirQueue,    \* IterateStoragePathsAll
    dirPath,     \* IterateStoragePathsAll
    empty,       \* IterateStoragePathsAll
    caller,      \* who called IterateStoragePaths: "single", "seed" or "drain"
    it,          \* the frame of IterateStoragePaths
    trace        \* history: backend calls and sink calls, in order

vars == <<ns, entry, objectPath, recursive, pc, result, remotePath, basePath,
          dirQueue, dirPath, empty, caller, it, trace>>

walkVars == <<basePath, dirQueue, dirPath, empty>>

inputVars == <<ns, entry, objectPath, recursive>>

\* a sink call: src is "single", "seed", "drain" or "marker", dir the path being listed
SinkEvent(src, dir, path, ok) ==
    [kind |-> "sink", src |-> src, dir |-> dir, path |-> path, ok |-> ok,
     bucket |-> <<>>, prefix |-> <<>>, page |-> 0, names |-> <<>>]

\* a backend call: src is the caller of the listing, names what the callback will be given
CallEvent(op, src, dir, bucket, prefix, page, names, ok) ==
    [kind |-> op, src |-> src, dir |-> dir, path |-> <<>>, ok |-> ok,
     bucket |-> bucket, prefix |-> prefix, page |-> page, names |-> names]

Init ==
    /\ ns \in Namespaces
    /\ recursive \in BOOLEAN
    /\ \/ /\ entry = "Run"
          /\ objectPath \in Addresses
          /\ remotePath = <<>>
          /\ pc = "Run"
       \/ /\ entry = "direct"
          /\ objectPath = <<>>
          /\ remotePath \in DirectPaths
          /\ pc = IF recursive THEN "IterateStoragePathsAll" ELSE "IterateStoragePaths"
    /\ result = "running"
    /\ basePath = <<>>
    /\ dirQueue = <<>>
    /\ dirPath = <<>>
    /\ empty = FALSE
    /\ caller = IF recursive THEN "seed" ELSE "single"
    /\ it = NoFrame
    /\ trace = <<>>

\* return err / return nil out of the outermost function
Return(err) ==
    /\ pc' = "done"
    /\ result' = err

\* ------------------------------------------------------------------------
\* Run
\* ------------------------------------------------------------------------
Run ==
    /\ pc = "Run"
    /\ LET r == ParseStorageURL(objectPath)
       IN  IF r.err # "nil"
           THEN Return(r.err) /\ UNCHANGED remotePath
           ELSE \E refOk \in BOOLEAN :
                    IF ~refOk
                    THEN Return("errProjectRef") /\ UNCHANGED remotePath
                    ELSE /\ remotePath' = r.path
                         /\ pc' = IF recursive THEN "IterateStoragePathsAll" ELSE "IterateStoragePaths"
                         /\ UNCHANGED result
    /\ UNCHANGED <<inputVars, walkVars, caller, it, trace>>

\* ------------------------------------------------------------------------
\* IterateStoragePaths
\* ------------------------------------------------------------------------
\* entry of the single-level listing called on its own
IterateStoragePaths ==
    /\ pc = "IterateStoragePaths"
    /\ it' = Frame(remotePath)
    /\ pc' = "list"
    /\ UNCHANGED <<inputVars, walkVars, result, remotePath, caller, trace>>

\* the bucket branch: one listBuckets call (pages = 0 marks the branch
\* without a page loop)
ListBuckets ==
    /\ pc = "list"
    /\ IsBucketListing(it.bucket, it.prefix, it.remotePath)
    /\ \E ok \in BOOLEAN :
         LET buckets == ListStorageBuckets(ns)
         IN  IF ~ok
             THEN /\ trace' = Append(trace, CallEvent("listBuckets", caller, it.remotePath, <<>>, <<>>, 0, <<>>, FALSE))
                  /\ Return("errBackend")
                  /\ UNCHANGED it
             ELSE /\ trace' = Append(trace, CallEvent("listBuckets", caller, it.remotePath, <<>>, <<>>, 0,
                                                      BucketEntryNames(buckets, it.bucket), TRUE))
                  /\ it' = [it EXCEPT !.names = BucketEntryNames(buckets, it.bucket), !.k = 0,
                                      !.n = Len(buckets), !.pages = 0]
                  /\ pc' = "callback"
                  /\ UNCHANGED result
    /\ UNCHANGED <<inputVars, walkVars, remotePath, caller>>

\* an object branch that takes a failed call for an empty page
ListObjects_SwallowError ==
    /\ pc = "list"
    /\ ~IsBucketListing(it.bucket, it.prefix, it.remotePath)
    /\ it.i < it.pages
    /\ \E ok \in BOOLEAN :
         LET objects == IF ok THEN ListStorageObjects(ns, it.bucket, it.prefix, it.i) ELSE <<>>
         IN  /\ trace' = Append(trace, CallEvent("listObjects", caller, it.remotePath, it.bucket, it.prefix,
                                                 it.i, ObjectEntryNames(objects), ok))
             /\ it' = [it EXCEPT !.names = ObjectEntryNames(objects), !.k = 0, !.n = Len(objects)]
             /\ pc' = "callback"
             /\ UNCHANGED result
    /\ UNCHANGED <<inputVars, walkVars, remotePath, caller>>

\* the object branch: the listObjects call of loop iteration i
ListObjects ==
    /\ pc = "list"
    /\ ~IsBucketListing(it.bucket, it.prefix, it.remotePath)
    /\ it.i < it.pages
    /\ \E ok \in BOOLEAN :
         LET objects == ListStorageObjects(ns, it.bucket, it.prefix, it.i)
         IN  IF ~ok
             THEN /\ trace' = Append(trace, CallEvent("listObjects", caller, it.remotePath, it.bucket, it.prefix,
                                                      it.i, <<>>, FALSE))
                  /\ Return("errBackend")
                  /\ UNCHANGED it
             ELSE /\ trace' = Append(trace, CallEvent("listObjects", caller, it.remotePath, it.bucket, it.prefix,
                                                      it.i, ObjectEntryNames(objects), TRUE))
                  /\ it' = [it EXCEPT !.names = ObjectEntryNames(objects), !.k = 0, !.n = Len(objects)]
                  /\ pc' = "callback"
                  /\ UNCHANGED result
    /\ UNCHANGED <<inputVars, walkVars, remotePath, caller>>

\* the outcomes of a sink call: Run's sink prints and returns nil, a sink
\* handed to the iterators by another caller may fail
SinkOutcomes == IF entry = "Run" THEN {TRUE} ELSE BOOLEAN

\* a sink call whose error is dropped
Sink_IgnoreError(src, dir, path) ==
    \E ok \in SinkOutcomes :
        /\ trace' = Append(trace, SinkEvent(src, dir, path, ok))
        /\ it' = [it EXCEPT !.k = it.k + 1]
        /\ UNCHANGED <<pc, result>>

\* the sink is called with path; it may fail, and its error is returned
Sink(src, dir, path) ==
    \E ok \in SinkOutcomes :
        /\ trace' = Append(trace, SinkEvent(src, dir, path, ok))
        /\ IF ok
           THEN /\ it' = [it EXCEPT !.k = it.k + 1]
                /\ UNCHANGED <<pc, result>>
           ELSE /\ Return("errSink")
                /\ UNCHANGED it

\* the callback of a single-level listing: the sink itself
SingleCallback ==
    /\ pc = "callback"
    /\ caller = "single"
    /\ it.k < Len(it.names)
    /\ Sink("single", it.remotePath, it.names[it.k + 1])
    /\ UNCHANGED <<inputVars, walkVars, remotePath, caller>>

\* the end of one page (object branch) or of the bucket loop
PageEnd ==
    /\ pc = "callback"
    /\ it.k = Len(it.names)
    /\ LET pages == IF it.pages = 0 THEN 0 ELSE NextPages(it.pages, it.n)
           i     == it.i + 1
       IN  /\ it' = [it EXCEPT !.pages = pages, !.i = i]
           /\ IF it.pages # 0 /\ i < pages
              THEN pc' = "list" /\ UNCHANGED result
              ELSE IF caller = "single" THEN Return("nil")
                   ELSE IF caller = "seed" THEN pc' = "drain" /\ UNCHANGED result
                   ELSE pc' = "report" /\ UNCHANGED result
    /\ UNCHANGED <<inputVars, walkVars, remotePath, caller, trace>>

\* ------------------------------------------------------------------------
\* IterateStoragePathsAll
\* ------------------------------------------------------------------------
\* basePath, the empty queue and the seed listing's call
IterateStoragePathsAll ==
    /\ pc = "IterateStoragePathsAll"
    /\ basePath' = BasePath(remotePath)
    /\ dirQueue' = <<>>
    /\ caller' = "seed"
    /\ it' = Frame(remotePath)
    /\ pc' = "list"
    /\ UNCHANGED <<inputVars, result, remotePath, dirPath, empty, trace>>

\* the callback of the seed listing
SeedCallback ==
    /\ pc = "callback"
    /\ caller = "seed"
    /\ it.k < Len(it.names)
    /\ LET objectName == it.names[it.k + 1]
           fullPath   == basePath \o objectName
       IN  IF IsDirName(objectName)
           THEN /\ dirQueue' = Append(dirQueue, fullPath)
                /\ it' = [it EXCEPT !.k = it.k + 1]
                /\ UNCHANGED <<pc, result, trace>>
           ELSE /\ Sink("seed", it.remotePath, fullPath)
                /\ UNCHANGED dirQueue
    /\ UNCHANGED <<inputVars, remotePath, basePath, dirPath, empty, caller>>

\* the head of the drain loop: return, or take a directory and list it
Drain ==
    /\ pc = "drain"
    /\ IF Len(dirQueue) > 0
       THEN /\ dirPath' = dirQueue[DirQueuePick(dirQueue)]
            /\ dirQueue' = DirQueueRest(dirQueue)
            /\ empty' = TRUE
            /\ caller' = "drain"
            /\ it' = Frame(dirQueue[DirQueuePick(dirQueue)])
            /\ pc' = "list"
            /\ UNCHANGED result
       ELSE /\ Return("nil")
            /\ UNCHANGED <<dirPath, dirQueue, empty, caller, it>>
    /\ UNCHANGED <<inputVars, remotePath, basePath, trace>>

\* the callback of a drain listing
DrainCallback ==
    /\ pc = "callback"
    /\ caller = "drain"
    /\ it.k < Len(it.names)
    /\ empty' = FALSE
    /\ LET objectName == it.names[it.k + 1]
           fullPath   == dirPath \o objectName
       IN  IF IsDirName(objectName)
           THEN /\ dirQueue' = Append(dirQueue, fullPath)
                /\ it' = [it EXCEPT !.k = it.k + 1]
                /\ UNCHANGED <<pc, result, trace>>
           ELSE /\ Sink("drain", dirPath, fullPath)
                /\ UNCHANGED dirQueue
    /\ UNCHANGED <<inputVars, remotePath, basePath, dirPath, caller>>

\* after a drain listing: also report empty buckets
ReportEmpty ==
    /\ pc = "report"
    /\ LET bp == SplitBucketPrefix(dirPath)
       IN  IF ReportsEmpty(empty, bp.prefix)
           THEN \E ok \in SinkOutcomes :
                    /\ trace' = Append(trace, SinkEvent("marker", dirPath, bp.bucket \o <<"/">>, ok))
                    /\ IF ok THEN pc' = "drain" /\ UNCHANGED result
                       ELSE Return("errSink")
           ELSE /\ pc' = "drain"
                /\ UNCHANGED <<result, trace>>
    /\ UNCHANGED <<inputVars, walkVars, remotePath, caller, it>>

Next ==
    \/ Run
    \/ IterateStoragePaths
    \/ ListBuckets
    \/ ListObjects
    \/ SingleCallback
    \/ PageEnd
    \/ IterateStoragePathsAll
    \/ SeedCallback
    \/ Drain
    \/ DrainCallback
    \/ ReportEmpty

Spec == Init /\ [][Next]_vars

\* ------------------------------------------------------------------------
\* Reading the history
\* ------------------------------------------------------------------------
IsSink(e) == e.kind = "sink"

IsCall(e) == e.kind \in {"listBuckets", "listObjects"}

\* a sink call for a leaf object: its path does not end in the separator
IsLeafSink(e) == IsSink(e) /\ ~HasSuffix(e.path, <<"/">>)

SinkEvents == SelectSeq(trace, IsSink)

CallEvents == SelectSeq(trace, IsCall)

\* the paths passed to the sink, in order
Emitted == [i \in 1..Len(SinkEvents) |-> SinkEvents[i].path]

LeafEmitted == LET l == SelectSeq(trace, IsLeafSink) IN [i \in 1..Len(l) |-> l[i].path]

\* the number of separators in a path: its depth in the namespace
RECURSIVE Depth(_)
Depth(path) ==
    IF path = <<>> THEN 0
    ELSE (IF path[1] = "/" THEN 1 ELSE 0) + Depth(Tail(path))

\* the keys bucket/folder/.../name of the stored objects below dir
RECURSIVE LeafKeys(_, _)
LeafKeys(listing, dir) ==
    IF listing = <<>> THEN {}
    ELSE (IF listing[1].Id THEN {dir \o listing[1].Name}
          ELSE LeafKeys(listing[1].Sub, dir \o listing[1].Name \o <<"/">>))
         \cup LeafKeys(Tail(listing), dir)

AllLeafKeys == UNION { LeafKeys(ns[b].Objects, ns[b].Name \o <<"/">>) : b \in 1..Len(ns) }

\* the walk writes paths in the form of its start path: rooted or not
Rooted(key) == IF HasPrefix(remotePath, <<"/">>) THEN <<"/">> \o key ELSE key

\* the stored objects under the start bucket/prefix
ReachableLeaves == { Rooted(k) : k \in { k \in AllLeafKeys : HasPrefix(Rooted(k), remotePath) } }

Finished == pc = "done" /\ result = "nil"

IsPrefixOf(a, b) == Len(a) <= Len(b) /\ SubSeq(b, 1, Len(a)) = a

\* the bucket of the namespace with the given name is there and holds nothing
EmptyBucket(name) == \E b \in 1..Len(ns) : ns[b].Name = name /\ ns[b].Objects = <<>>

\* ------------------------------------------------------------------------
\* C1: in a recursive walk every leaf object at depth N is passed to the
\* sink before any leaf object at depth N+1.
\* ------------------------------------------------------------------------
C1_BreadthFirstLeaves ==
    recursive =>
        \A i, j \in 1..Len(LeafEmitted) :
            i < j => Depth(LeafEmitted[i]) # Depth(LeafEmitted[j]) + 1

\* ------------------------------------------------------------------------
\* C2: a recursive walk over ss:///a/, where bucket a exists and holds no
\* object, invokes the sink exactly once, with the path a/.
\* ------------------------------------------------------------------------
C2_EmptyBucketWalk ==
    ( /\ entry = "Run"
      /\ recursive
      /\ objectPath = <<"s", "s", ":", "/", "/", "/", "a", "/">>
      /\ EmptyBucket(<<"a">>)
      /\ Finished )
    => Emitted = << <<"a", "/">> >>

\* ------------------------------------------------------------------------
\* C3: a recursive walk that returns without error has invoked the sink
\* exactly once for every stored object under the start bucket/prefix, and
\* for no leaf path that is not one of them.
\* ------------------------------------------------------------------------
C3_EveryLeafOnce ==
    (recursive /\ Finished) =>
        /\ { LeafEmitted[i] : i \in 1..Len(LeafEmitted) } = ReachableLeaves
        /\ Len(LeafEmitted) = Cardinality(ReachableLeaves)

C3_Witness ==
    /\ recursive
    /\ Finished
    /\ Cardinality(ReachableLeaves) >= 2
    /\ Cardinality(ReachableLeaves) < Cardinality(AllLeafKeys)
    /\ \E i, j \in 1..Len(LeafEmitted) : Depth(LeafEmitted[i]) > Depth(LeafEmitted[j])

\* ------------------------------------------------------------------------
\* C4: in a recursive walk a listing that returns zero entries is followed
\* by a sink call only when the listed directory has an empty prefix, and
\* the value is then bucket + "/"; an empty directory with a non-empty
\* prefix produces no sink call.  Every empty-directory sink call follows
\* such a listing.
\* ------------------------------------------------------------------------
EmptyListing(e) == IsCall(e) /\ e.ok /\ e.page = 0 /\ e.names = <<>>

C4_OnlyEmptyBuckets ==
    recursive =>
        \A i \in 1..Len(trace) :
            /\ (i < Len(trace) /\ EmptyListing(trace[i]) /\ IsSink(trace[i + 1])) =>
                   /\ SplitBucketPrefix(trace[i].dir).prefix = <<>>
                   /\ trace[i + 1].path = SplitBucketPrefix(trace[i].dir).bucket \o <<"/">>
            /\ (EmptyListing(trace[i]) /\ SplitBucketPrefix(trace[i].dir).prefix # <<>>) =>
                   (i < Len(trace) => ~IsSink(trace[i + 1]))
            /\ (IsSink(trace[i]) /\ trace[i].src = "marker") =>
                   /\ i > 1
                   /\ EmptyListing(trace[i - 1])
                   /\ trace[i - 1].dir = trace[i].dir
                   /\ SplitBucketPrefix(trace[i].dir).prefix = <<>>

C4_Witness ==
    /\ recursive
    /\ Finished
    /\ \E i \in 1..Len(trace) : IsSink(trace[i]) /\ trace[i].src = "marker"
    /\ \E i \in 1..Len(trace) :
           /\ EmptyListing(trace[i])
           /\ trace[i].src = "drain"
           /\ SplitBucketPrefix(trace[i].dir).prefix # <<>>

\* ------------------------------------------------------------------------
\* C5: in a recursive walk the sink is invoked for directories too, and a
\* directory's path is emitted before any path beneath it (as stated).
\* ------------------------------------------------------------------------
C5_DirectoriesEmittedFirst ==
    recursive =>
        \A j \in 1..Len(trace) :
            (IsSink(trace[j]) /\ trace[j].src = "drain") =>
                \E i \in 1..(j - 1) : IsSink(trace[i]) /\ trace[i].path = trace[j].dir

\* the full paths of the leaves the listings have returned so far
RECURSIVE LeavesOf(_, _)
LeavesOf(base, names) ==
    IF names = <<>> THEN <<>>
    ELSE (IF HasSuffix(names[1], <<"/">>) THEN <<>> ELSE <<base \o names[1]>>)
         \o LeavesOf(base, Tail(names))

RECURSIVE DiscoveredLeaves(_)
DiscoveredLeaves(events) ==
    IF events = <<>> THEN <<>>
    ELSE (IF IsCall(events[1])
          THEN LeavesOf(IF events[1].src = "seed" THEN BasePath(remotePath) ELSE events[1].dir,
                        events[1].names)
          ELSE <<>>)
         \o DiscoveredLeaves(Tail(events))

\* ------------------------------------------------------------------------
\* C5 (amended): in a recursive walk the sink is invoked once per leaf
\* entry a listing returns, in the order of discovery, and never for a
\* directory found by a listing (directories are only queued and listed);
\* the leaves found by the seed listing are emitted before anything found
\* beneath a directory.
\* ------------------------------------------------------------------------
C5_LeavesOnlyStartLevelFirst ==
    recursive =>
        /\ \A i \in 1..Len(trace) :
               (IsSink(trace[i]) /\ trace[i].src # "marker") => ~HasSuffix(trace[i].path, <<"/">>)
        /\ IsPrefixOf(LeafEmitted, DiscoveredLeaves(trace))
        /\ \A i, j \in 1..Len(SinkEvents) :
               (i < j /\ SinkEvents[j].src = "seed") => SinkEvents[i].src = "seed"
        /\ Finished => LeafEmitted = DiscoveredLeaves(trace)

\* bucket a holds leaf x and folder xy/ that holds leaf x; the walk of ss:///a/
C5_Witness ==
    /\ recursive
    /\ Finished
    /\ objectPath = <<"s", "s", ":", "/", "/", "/", "a", "/">>
    /\ Emitted = << <<"/", "a", "/", "x">>, <<"/", "a", "/", "x", "y", "/", "x">> >>
    /\ \E i \in 1..Len(trace) : IsCall(trace[i]) /\ trace[i].dir = <<"/", "a", "/", "x", "y", "/">>

\* ------------------------------------------------------------------------
\* C6: the object branch of a single-level listing queries pages 0,1,2,...
\* of one bucket/prefix; page k+1 is requested only after page k returned
\* exactly PAGE_LIMIT entries, an error-free listing ends on a page shorter
\* than PAGE_LIMIT, and the sink gets the entries of all fetched pages
\* concatenated in page order.
\* ------------------------------------------------------------------------
ObjectCalls == SelectSeq(trace, LAMBDA e : e.kind = "listObjects")

RECURSIVE Concat(_)
Concat(pagesSeq) == IF pagesSeq = <<>> THEN <<>> ELSE pagesSeq[1].names \o Concat(Tail(pagesSeq))

C6_Pagination ==
    ~recursive =>
        /\ \A k \in 1..Len(ObjectCalls) :
               /\ ObjectCalls[k].page = k - 1
               /\ ObjectCalls[k].bucket = SplitBucketPrefix(remotePath).bucket
               /\ ObjectCalls[k].prefix = SplitBucketPrefix(remotePath).prefix
               /\ k > 1 => Len(ObjectCalls[k - 1].names) = PAGE_LIMIT
        /\ (Finished /\ ObjectCalls # <<>>) =>
               /\ Len(ObjectCalls[Len(ObjectCalls)].names) < PAGE_LIMIT
               /\ Emitted = Concat(ObjectCalls)
               /\ Len(Emitted) = Len(ListAllObjects(ns, SplitBucketPrefix(remotePath).bucket,
                                                    SplitBucketPrefix(remotePath).prefix))

C6_Witness ==
    /\ ~recursive
    /\ Finished
    /\ Len(ObjectCalls) = 2
    /\ Len(ObjectCalls[1].names) = PAGE_LIMIT
    /\ Len(ObjectCalls[2].names) = 1
    /\ Len(Emitted) = PAGE_LIMIT + 1

\* ------------------------------------------------------------------------
\* C7: when the bucket part of the path is empty, or the prefix is empty
\* and the path does not end in "/", a single-level listing makes exactly
\* one backend call, listBuckets, and passes name + "/" of exactly the
\* buckets whose name starts with the bucket string, in backend order; in
\* every other case it makes no listBuckets call.
\* ------------------------------------------------------------------------
BucketCase ==
    \/ SplitBucketPrefix(remotePath).bucket = <<>>
    \/ (SplitBucketPrefix(remotePath).prefix = <<>> /\ ~HasSuffix(remotePath, <<"/">>))

MatchingBuckets ==
    LET m == SelectSeq(ns, LAMBDA b : HasPrefix(b.Name, SplitBucketPrefix(remotePath).bucket))
    IN  [i \in 1..Len(m) |-> m[i].Name \o <<"/">>]

C7_BucketBranch ==
    ~recursive =>
        IF BucketCase
        THEN /\ \A i \in 1..Len(trace) : trace[i].kind # "listObjects"
             /\ Len(CallEvents) <= 1
             /\ (pc = "done" /\ result \in {"nil", "errBackend", "errSink"}) => Len(CallEvents) = 1
             /\ Len(Emitted) <= Len(MatchingBuckets)
             /\ Emitted = SubSeq(MatchingBuckets, 1, Len(Emitted))
             /\ Finished => Emitted = MatchingBuckets
        ELSE \A i \in 1..Len(trace) : trace[i].kind # "listBuckets"

C7_Witness ==
    /\ ~recursive
    /\ Finished
    /\ remotePath = <<"/", "a", "b">>
    /\ Len(ns) = 2
    /\ Emitted = << <<"a", "b", "/">> >>
    /\ Len(CallEvents) = 1

\* ------------------------------------------------------------------------
\* The recursive walk as a function of the namespace: the paths an
\* error-free walk passes to the sink, in order
\* ------------------------------------------------------------------------
ListNames(path) ==
    LET bp == SplitBucketPrefix(path)
    IN  IF IsBucketListing(bp.bucket, bp.prefix, path)
        THEN BucketEntryNames(ListStorageBuckets(ns), bp.bucket)
        ELSE ObjectEntryNames(ListAllObjects(ns, bp.bucket, bp.prefix))

RECURSIVE DirsOf(_, _)
DirsOf(base, names) ==
    IF names = <<>> THEN <<>>
    ELSE (IF HasSuffix(names[1], <<"/">>) THEN <<base \o names[1]>> ELSE <<>>)
         \o DirsOf(base, Tail(names))

RECURSIVE WalkQueue(_, _)
WalkQueue(queue, out) ==
    IF queue = <<>> THEN out
    ELSE LET d      == queue[Len(queue)]
             names  == ListNames(d)
             bp     == SplitBucketPrefix(d)
             marker == IF names = <<>> /\ bp.prefix = <<>> THEN <<bp.bucket \o <<"/">>>> ELSE <<>>
         IN  WalkQueue(SubSeq(queue, 1, Len(queue) - 1) \o DirsOf(d, names),
                       out \o LeavesOf(d, names) \o marker)

FullWalk ==
    WalkQueue(DirsOf(BasePath(remotePath), ListNames(remotePath)),
              LeavesOf(BasePath(remotePath), ListNames(remotePath)))

\* ------------------------------------------------------------------------
\* C8: when a backend call fails during a recursive walk, the walk returns
\* that error at once: the failed call is the last backend or sink call
\* (no retry), and the sink calls made before it are a prefix of the
\* emission sequence of the error-free walk.
\* ------------------------------------------------------------------------
C8_BackendFailureAborts ==
    recursive =>
        /\ \A i \in 1..Len(trace) :
               (IsCall(trace[i]) /\ ~trace[i].ok) =>
                   /\ i = Len(trace)
                   /\ pc = "done"
                   /\ result = "errBackend"
        /\ result = "errBackend" =>
               /\ trace # <<>>
               /\ IsCall(trace[Len(trace)])
               /\ ~trace[Len(trace)].ok
               /\ IsPrefixOf(Emitted, FullWalk)

C8_Witness ==
    /\ recursive
    /\ pc = "done"
    /\ result = "errBackend"
    /\ trace[Len(trace)].src = "drain"
    /\ Len(Emitted) >= 2
    /\ Len(Emitted) < Len(FullWalk)
    /\ Len(CallEvents) >= 3

\* ------------------------------------------------------------------------
\* C9: when the sink returns an error (for a leaf of the seed listing, a
\* leaf of a drain listing or the empty-bucket marker), the traversal
\* returns that error at once: the failed sink call is the last sink or
\* backend call.
\* ------------------------------------------------------------------------
C9_SinkFailureAborts ==
    /\ \A i \in 1..Len(trace) :
           (IsSink(trace[i]) /\ ~trace[i].ok) =>
               /\ i = Len(trace)
               /\ pc = "done"
               /\ result = "errSink"
    /\ result = "errSink" =>
           /\ trace # <<>>
           /\ IsSink(trace[Len(trace)])
           /\ ~trace[Len(trace)].ok

C9_Witness ==
    /\ entry = "direct"
    /\ recursive
    /\ pc = "done"
    /\ result = "errSink"
    /\ trace[Len(trace)].src = "marker"
    /\ \E i \in 1..(Len(trace) - 1) : IsSink(trace[i]) /\ trace[i].src = "drain" /\ trace[i].ok

\* ------------------------------------------------------------------------
\* C10: for an address whose scheme is not ss (case-insensitively), or
\* whose host is not empty, or whose path is empty, Run fails with the
\* invalid-address error before any backend call and any sink call; an
\* address url.Parse rejects fails with the parser's error, also before
\* any call.
\* ------------------------------------------------------------------------
C10_InvalidAddress ==
    entry = "Run" =>
        LET u == UrlParse(objectPath)
        IN  /\ ( /\ u.err = "nil"
                 /\ \/ ToLower(u.Scheme) # <<"s", "s">>
                    \/ u.Host # <<>>
                    \/ u.Path = <<>> ) =>
                   /\ trace = <<>>
                   /\ pc \in {"Run", "done"}
                   /\ pc = "done" => result = "errInvalidURL"
            /\ u.err # "nil" =>
                   /\ trace = <<>>
                   /\ pc \in {"Run", "done"}
                   /\ pc = "done" => result = u.err

C10_Witness ==
    /\ entry = "Run"
    /\ pc = "done"
    /\ result = "errInvalidURL"
    /\ trace = <<>>
    /\ UrlParse(objectPath).Scheme = <<"s", "s">>
    /\ UrlParse(objectPath).Host # <<>>
    /\ UrlParse(objectPath).Path # <<>>

\* ------------------------------------------------------------------------
\* SplitBucketPrefix on its own: every path up to MaxPathLen characters
\* ------------------------------------------------------------------------
\* longest path handed to SplitBucketPrefix
MaxPathLen == 4

PathChars == {"/", "a", "b"}

RECURSIVE Paths(_)
Paths(n) ==
    IF n = 0 THEN {<<>>}
    ELSE Paths(n - 1) \cup { Append(p, c) : p \in Paths(n - 1), c \in PathChars }

SplitInit ==
    /\ ns = <<>>
    /\ entry = "direct"
    /\ objectPath = <<>>
    /\ recursive = FALSE
    /\ pc = "SplitBucketPrefix"
    /\ result = "running"
    /\ remotePath \in Paths(MaxPathLen)
    /\ basePath = <<>>
    /\ dirQueue = <<>>
    /\ dirPath = <<>>
    /\ empty = FALSE
    /\ caller = "single"
    /\ it = NoFrame
    /\ trace = <<>>

\* one call of SplitBucketPrefix; the pair it returns is kept in the frame
SplitCall ==
    /\ pc = "SplitBucketPrefix"
    /\ it' = [NoFrame EXCEPT !.remotePath = remotePath,
                             !.bucket = SplitBucketPrefix(remotePath).bucket,
                             !.prefix = SplitBucketPrefix(remotePath).prefix]
    /\ pc' = "done"
    /\ result' = "nil"
    /\ UNCHANGED <<inputVars, walkVars, remotePath, caller, trace>>

SplitNext == SplitCall

SplitSpec == SplitInit /\ [][SplitNext]_vars

\* the path without one leading separator
Remainder(p) == IF p # <<>> /\ p[1] = "/" THEN Tail(p) ELSE p

\* ------------------------------------------------------------------------
\* C11: SplitBucketPrefix strips exactly one leading "/" if present; the
\* bucket is the part of the remainder before its first "/" (so it holds
\* no "/") and the prefix everything after that "/"; with no "/" left the
\* remainder is the bucket and the prefix is empty; "" and "/" give
\* ("", "").  So remainder = bucket, or remainder = bucket + "/" + prefix.
\* ------------------------------------------------------------------------
C11_SplitReconstructs ==
    pc = "done" =>
        LET rem == Remainder(remotePath)
        IN  /\ \A i \in 1..Len(it.bucket) : it.bucket[i] # "/"
            /\ IF \E i \in 1..Len(rem) : rem[i] = "/"
               THEN rem = it.bucket \o <<"/">> \o it.prefix
               ELSE it.bucket = rem /\ it.prefix = <<>>
            /\ remotePath \in {<<>>, <<"/">>} => (it.bucket = <<>> /\ it.prefix = <<>>)

C11_Witness ==
    /\ pc = "done"
    /\ remotePath = <<"/", "a", "/", "b">>
    /\ it.bucket = <<"a">>
    /\ it.prefix = <<"b">>

\* ------------------------------------------------------------------------
\* The walk with an address whose path starts with two separators, and
\* with the history capped so that a walk that goes on for ever has
\* finitely many states.  No walk of Spec needs more than 12 events.
\* ------------------------------------------------------------------------
\* longest history explored
MaxEvents == 16

\* ss:////, which url.Parse reads as an empty host and the path //
DoubleSlashAddress == <<"s", "s", ":", "/", "/", "/", "/">>

TermInit ==
    /\ ns \in Namespaces
    /\ recursive \in BOOLEAN
    /\ \/ /\ entry = "Run"
          /\ objectPath \in Addresses \cup {DoubleSlashAddress}
          /\ remotePath = <<>>
          /\ pc = "Run"
       \/ /\ entry = "direct"
          /\ objectPath = <<>>
          /\ remotePath \in DirectPaths
          /\ pc = IF recursive THEN "IterateStoragePathsAll" ELSE "IterateStoragePaths"
    /\ result = "running"
    /\ basePath = <<>>
    /\ dirQueue = <<>>
    /\ dirPath = <<>>
    /\ empty = FALSE
    /\ caller = IF recursive THEN "seed" ELSE "single"
    /\ it = NoFrame
    /\ trace = <<>>

\* the steps of Next, each taken only while the history is below the cap
TermNext ==
    \/ Len(trace) < MaxEvents /\ Run
    \/ Len(trace) < MaxEvents /\ IterateStoragePaths
    \/ Len(trace) < MaxEvents /\ ListBuckets
    \/ Len(trace) < MaxEvents /\ ListObjects
    \/ Len(trace) < MaxEvents /\ SingleCallback
    \/ Len(trace) < MaxEvents /\ PageEnd
    \/ Len(trace) < MaxEvents /\ IterateStoragePathsAll
    \/ Len(trace) < MaxEvents /\ SeedCallback
    \/ Len(trace) < MaxEvents /\ Drain
    \/ Len(trace) < MaxEvents /\ DrainCallback
    \/ Len(trace) < MaxEvents /\ ReportEmpty

\* the program runs on its own: a step that can be taken is taken
TermSpec == TermInit /\ [][TermNext]_vars /\ WF_vars(TermNext)

\* ------------------------------------------------------------------------
\* C12: a recursive walk over a finite namespace, where every listing ends
\* on a short page, returns, and the work queue is empty when it returns
\* without error.
\* ------------------------------------------------------------------------
C12_WalkTerminates ==
    <>(recursive => (pc = "done" /\ (result = "nil" => dirQueue = <<>>)))

\* ------------------------------------------------------------------------
\* C20: every path placed on the work queue ends with "/" and has a
\* non-empty bucket component, so every listing of the drain loop is an
\* object listing of exactly that bucket/prefix: no listBuckets call is
\* made after the seed listing.
\* ------------------------------------------------------------------------
C20_DrainListsObjects ==
    /\ \A q \in 1..Len(dirQueue) :
           /\ HasSuffix(dirQueue[q], <<"/">>)
           /\ SplitBucketPrefix(dirQueue[q]).bucket # <<>>
    /\ \A i \in 1..Len(trace) :
           (IsCall(trace[i]) /\ trace[i].src = "drain") =>
               /\ trace[i].kind = "listObjects"
               /\ HasSuffix(trace[i].dir, <<"/">>)
               /\ trace[i].bucket = SplitBucketPrefix(trace[i].dir).bucket
               /\ trace[i].prefix = SplitBucketPrefix(trace[i].dir).prefix
               /\ trace[i].bucket # <<>>

\* ------------------------------------------------------------------------
\* Directories in the history: discovered by a listing, listed by the
\* drain loop
\* ------------------------------------------------------------------------
\* the base a listing's names are appended to
BaseOf(e) == IF e.src = "seed" THEN BasePath(remotePath) ELSE e.dir

RECURSIVE DiscoveredDirs(_)
DiscoveredDirs(events) ==
    IF events = <<>> THEN <<>>
    ELSE (IF IsCall(events[1]) THEN DirsOf(BaseOf(events[1]), events[1].names) ELSE <<>>)
         \o DiscoveredDirs(Tail(events))

\* the first backend call of each listing
FirstCalls == SelectSeq(trace, LAMBDA e : IsCall(e) /\ e.page = 0)

ListedDirs ==
    LET l == SelectSeq(FirstCalls, LAMBDA e : e.src = "drain")
    IN  [i \in 1..Len(l) |-> l[i].dir]

\* ------------------------------------------------------------------------
\* C13: in a recursive walk the pending directories are listed in the
\* order in which they were discovered, so every directory of level N is
\* listed before any directory of level N+1.
\* ------------------------------------------------------------------------
C13_DiscoveryOrder ==
    recursive =>
        /\ IsPrefixOf(ListedDirs, DiscoveredDirs(trace))
        /\ \A i, j \in 1..Len(ListedDirs) :
               i < j => Depth(ListedDirs[i]) <= Depth(ListedDirs[j])

\* ------------------------------------------------------------------------
\* A backend whose entry names are arbitrary: a stored object (with an
\* identifier) may have a name that ends in the separator
\* ------------------------------------------------------------------------
RawEntries ==
    { [Name |-> <<"x">>, Id |-> TRUE, Sub |-> <<>>],
      [Name |-> <<"y", "/">>, Id |-> TRUE, Sub |-> <<>>],
      [Name |-> <<"z">>, Id |-> FALSE,
       Sub |-> << [Name |-> <<"x">>, Id |-> TRUE, Sub |-> <<>>] >>] }

RawListings ==
    { l \in UNION { [1..n -> RawEntries] : n \in 0..Min(MaxEntries, Cardinality(RawEntries)) } :
          \A i, j \in 1..Len(l) : i # j => l[i] # l[j] }

RawNamespaces == { << [Name |-> <<"a">>, Objects |-> l] >> : l \in RawListings }

RawInit ==
    /\ ns \in RawNamespaces
    /\ recursive \in BOOLEAN
    /\ \/ /\ entry = "Run"
          /\ objectPath \in Addresses
          /\ remotePath = <<>>
          /\ pc = "Run"
       \/ /\ entry = "direct"
          /\ objectPath = <<>>
          /\ remotePath \in DirectPaths
          /\ pc = IF recursive THEN "IterateStoragePathsAll" ELSE "IterateStoragePaths"
    /\ result = "running"
    /\ basePath = <<>>
    /\ dirQueue = <<>>
    /\ dirPath = <<>>
    /\ empty = FALSE
    /\ caller = IF recursive THEN "seed" ELSE "single"
    /\ it = NoFrame
    /\ trace = <<>>

RawSpec == RawInit /\ [][Next]_vars

\* the full paths of the entries a listObjects call returned with / without an identifier
RECURSIVE PathsById(_, _, _)
PathsById(base, objects, id) ==
    IF objects = <<>> THEN <<>>
    ELSE (IF objects[1].Id = id THEN <<base \o objects[1].Name>> ELSE <<>>)
         \o PathsById(base, Tail(objects), id)

RECURSIVE ReturnedById(_, _)
ReturnedById(events, id) ==
    IF events = <<>> THEN <<>>
    ELSE (IF events[1].kind = "listObjects" /\ events[1].ok
          THEN PathsById(BaseOf(events[1]),
                         ListStorageObjects(ns, events[1].bucket, events[1].prefix, events[1].page), id)
          ELSE <<>>)
         \o ReturnedById(Tail(events), id)

\* the paths of bucket entries a listBuckets call produced
RECURSIVE ReturnedBuckets(_)
ReturnedBuckets(events) ==
    IF events = <<>> THEN <<>>
    ELSE (IF events[1].kind = "listBuckets"
          THEN [i \in 1..Len(events[1].names) |-> BaseOf(events[1]) \o events[1].names[i]]
          ELSE <<>>)
         \o ReturnedBuckets(Tail(events))

Range(s) == { s[i] : i \in 1..Len(s) }

\* ------------------------------------------------------------------------
\* C14: the recursive walk takes an entry for a directory (queues and
\* lists it, does not pass it to the sink) exactly when the backend
\* returned it without an identifier or it came from a bucket listing;
\* every entry with an identifier is passed to the sink as a leaf and is
\* never queued, whatever its name.
\* ------------------------------------------------------------------------
C14_LeafIffIdentifier ==
    (recursive /\ Finished) =>
        /\ [i \in 1..Len(SelectSeq(SinkEvents, LAMBDA e : e.src # "marker")) |->
               SelectSeq(SinkEvents, LAMBDA e : e.src # "marker")[i].path]
           = ReturnedById(trace, TRUE)
        /\ Range(ListedDirs)
           = { p \o <<"/">> : p \in Range(ReturnedById(trace, FALSE)) } \cup Range(ReturnedBuckets(trace))
        /\ Range(ListedDirs) \cap Range(ReturnedById(trace, TRUE)) = {}

\* the start path when it ends in "/", otherwise the start path cut after its last "/"
ExpectedBase ==
    IF remotePath # <<>> /\ remotePath[Len(remotePath)] = "/" THEN remotePath
    ELSE LET cuts == { i \in 1..Len(remotePath) : remotePath[i] = "/" }
         IN  IF cuts = {} THEN <<>>
             ELSE SubSeq(remotePath, 1, CHOOSE i \in cuts : \A j \in cuts : j <= i)

\* the position of the last backend call before position i of the history
LastCallBefore(i) == CHOOSE c \in 1..(i - 1) : IsCall(trace[c]) /\ \A d \in (c + 1)..(i - 1) : ~IsCall(trace[d])

\* ------------------------------------------------------------------------
\* C15: basePath is the start path when that ends in "/", otherwise the
\* start path truncated after its last "/"; a leaf found by the seed
\* listing is emitted as basePath + entry name, a leaf found while
\* draining dirPath as dirPath + entry name.
\* ------------------------------------------------------------------------
C15_PathsByConcatenation ==
    recursive =>
        /\ pc \notin {"Run", "IterateStoragePathsAll"} => basePath = ExpectedBase
        /\ \A i \in 1..Len(trace) :
               (IsSink(trace[i]) /\ trace[i].src \in {"seed", "drain"}) =>
                   /\ \E c \in 1..(i - 1) : IsCall(trace[c])
                   /\ LET call == trace[LastCallBefore(i)]
                          base == IF trace[i].src = "seed" THEN ExpectedBase ELSE call.dir
                      IN  /\ call.src = trace[i].src
                          /\ call.ok
                          /\ trace[i].src = "drain" => call.dir = trace[i].dir
                          /\ \E k \in 1..Len(call.names) :
                                 /\ ~HasSuffix(call.names[k], <<"/">>)
                                 /\ trace[i].path = base \o call.names[k]

C15_Witness ==
    /\ recursive
    /\ Finished
    /\ remotePath = <<"/", "a", "/", "x">>
    /\ basePath = <<"/", "a", "/">>
    /\ \E i \in 1..Len(trace) : IsSink(trace[i]) /\ trace[i].src = "seed"
    /\ \E i \in 1..Len(trace) : IsSink(trace[i]) /\ trace[i].src = "drain"

\* the leaf sink calls made while listing directory d, in order
LeafSinksOf(d) == SelectSeq(SinkEvents, LAMBDA e : e.src \in {"seed", "drain"} /\ e.dir = d)

\* the stored objects the backend holds for the listing of d, in the backend's order
BackendLeaves(d) ==
    LET all == ListAllObjects(ns, SplitBucketPrefix(d).bucket, SplitBucketPrefix(d).prefix)
        ids == SelectSeq(all, LAMBDA o : o.Id)
    IN  [i \in 1..Len(ids) |-> ids[i].Name]

\* ------------------------------------------------------------------------
\* C16: within one directory's listing of a recursive walk the leaves are
\* passed to the sink in the backend's order (page 0 first, then page 1,
\* ..., each page in the order returned), and no sink call of another
\* directory comes between them.
\* ------------------------------------------------------------------------
C16_ListingOrder ==
    recursive =>
        /\ \A i, j \in 1..Len(SinkEvents) :
               ( /\ i < j
                 /\ SinkEvents[i].src \in {"seed", "drain"}
                 /\ SinkEvents[j].src \in {"seed", "drain"}
                 /\ SinkEvents[i].dir = SinkEvents[j].dir ) =>
                   \A k \in i..j : SinkEvents[k].dir = SinkEvents[i].dir
        /\ \A s \in 1..Len(SinkEvents) :
               SinkEvents[s].src \in {"seed", "drain"} =>
                   LET d     == SinkEvents[s].dir
                       base  == IF SinkEvents[s].src = "seed" THEN ExpectedBase ELSE d
                       sinks == LeafSinksOf(d)
                       calls == SelectSeq(trace, LAMBDA e : e.kind = "listObjects" /\ e.dir = d)
                   IN  /\ \A c \in 1..Len(calls) : calls[c].page = c - 1
                       /\ Len(sinks) <= Len(BackendLeaves(d))
                       /\ \A n \in 1..Len(sinks) : sinks[n].path = base \o BackendLeaves(d)[n]

C16_Witness ==
    /\ recursive
    /\ Finished
    /\ \E i, j \in 1..Len(trace) :
           /\ i < j
           /\ trace[i].kind = "listObjects" /\ trace[i].src = "drain" /\ trace[i].page = 0
           /\ trace[j].kind = "listObjects" /\ trace[j].page = 1 /\ trace[j].dir = trace[i].dir
           /\ Len(LeafSinksOf(trace[i].dir)) >= PAGE_LIMIT
           /\ \E s \in 1..Len(SinkEvents) :
                  SinkEvents[s].src \in {"seed", "drain"} /\ SinkEvents[s].dir # trace[i].dir

\* ------------------------------------------------------------------------
\* A backend that never returns a short page: it answers every page index
\* of every prefix with the same PAGE_LIMIT entries.  The backend's state
\* ns is that page.  The listing is the one Run starts after a successful
\* parse, with Run's printing sink.  The page index is capped by MaxPages.
\* ------------------------------------------------------------------------
MaxPages == 4

RunawayEntries == {[Name |-> <<"x">>, Id |-> TRUE], [Name |-> <<"y">>, Id |-> FALSE]}

RunawayBackends == [1..PAGE_LIMIT -> RunawayEntries]

RunawayList(namespace, bucket, prefix, page) == namespace

\* parsed paths of an object listing, as Run hands them to the iterators
RunawayPaths ==
    { <<"/","a","/">>, <<"/","a","/","x">>, <<"/","a","/","x","/">> }

RunawayInit ==
    /\ ns \in RunawayBackends
    /\ recursive \in BOOLEAN
    /\ entry = "Run"
    /\ objectPath = <<>>
    /\ remotePath \in RunawayPaths
    /\ pc = IF recursive THEN "IterateStoragePathsAll" ELSE "IterateStoragePaths"
    /\ result = "running"
    /\ basePath = <<>>
    /\ dirQueue = <<>>
    /\ dirPath = <<>>
    /\ empty = FALSE
    /\ caller = IF recursive THEN "seed" ELSE "single"
    /\ it = NoFrame
    /\ trace = <<>>

\* the listObjects call of loop iteration i, answered by the runaway backend
RunawayListObjects ==
    /\ pc = "list"
    /\ ~IsBucketListing(it.bucket, it.prefix, it.remotePath)
    /\ it.i < it.pages
    /\ it.i < MaxPages
    /\ LET objects == RunawayList(ns, it.bucket, it.prefix, it.i)
       IN  /\ trace' = Append(trace, CallEvent("listObjects", caller, it.remotePath, it.bucket, it.prefix,
                                               it.i, ObjectEntryNames(objects), TRUE))
           /\ it' = [it EXCEPT !.names = ObjectEntryNames(objects), !.k = 0, !.n = Len(objects)]
           /\ pc' = "callback"
           /\ UNCHANGED result
    /\ UNCHANGED <<inputVars, walkVars, remotePath, caller>>

RunawayNext ==
    \/ IterateStoragePaths
    \/ IterateStoragePathsAll
    \/ RunawayListObjects
    \/ SingleCallback
    \/ SeedCallback
    \/ PageEnd

RunawaySpec == RunawayInit /\ [][RunawayNext]_vars

\* ------------------------------------------------------------------------
\* C17: against a backend that returns exactly PAGE_LIMIT entries for every
\* page index, the object listing never returns and never reports an
\* error: page k is followed by the request of page k + 1, and at every
\* request the loop condition i < pages holds, whatever the number of
\* pages already fetched.
\* ------------------------------------------------------------------------
C17_Runaway ==
    /\ pc \notin {"done", "drain", "report"}
    /\ result = "running"
    /\ \A k \in 1..Len(ObjectCalls) :
           /\ ObjectCalls[k].page = k - 1
           /\ ObjectCalls[k].ok
           /\ Len(ObjectCalls[k].names) = PAGE_LIMIT
    /\ pc = "list" => (it.i < it.pages /\ it.i = Len(ObjectCalls))

C17_Witness ==
    /\ Len(ObjectCalls) >= 4
    /\ pc = "list"
    /\ it.i < it.pages
    /\ result = "running"

\* ------------------------------------------------------------------------
\* C18: every path passed to the sink during one recursive walk, the
\* empty-bucket marker included, begins with the walk's basePath.
\* ------------------------------------------------------------------------
C18_PathsUnderBasePath ==
    recursive => \A s \in 1..Len(SinkEvents) : HasPrefix(SinkEvents[s].path, basePath)

\* the number of times d occurs in the sequence s
Count(s, d) == Cardinality({ i \in 1..Len(s) : s[i] = d })

\* ------------------------------------------------------------------------
\* C19: in a recursive walk that returns without error every directory
\* path that was enqueued is dequeued and listed exactly once, the work
\* queue is empty on return, and the number of single-level listings
\* performed is one (the seed) plus the number of directories discovered.
\* Between two listings the discovered directories are exactly the listed
\* ones and the queued ones.
\* ------------------------------------------------------------------------
C19_QueueAccounting ==
    LET discovered == DiscoveredDirs(trace)
    IN  /\ (recursive /\ pc = "drain") =>
               \A d \in Range(discovered) \cup Range(ListedDirs) \cup Range(dirQueue) :
                   Count(discovered, d) = Count(ListedDirs, d) + Count(dirQueue, d)
        /\ (recursive /\ Finished) =>
               /\ dirQueue = <<>>
               /\ \A d \in Range(discovered) \cup Range(ListedDirs) :
                      Count(ListedDirs, d) = 1 /\ Count(discovered, d) = 1
               /\ Len(FirstCalls) = 1 + Len(discovered)

C19_Witness ==
    /\ recursive
    /\ Finished
    /\ Len(ListedDirs) >= 3
    /\ \E i \in 1..Len(ListedDirs) : Depth(ListedDirs[i]) # Depth(ListedDirs[1])

\* ------------------------------------------------------------------------
\* The history cap of TermSpec is reached only by the recursive walk of
\* ss:////; where that walk has not failed on a backend error, a step of
\* the program (Next) is still enabled: the behaviours of C12 that end at
\* the cap are walks the program itself would carry on.
\* ------------------------------------------------------------------------
CapReachedOnlyByDoubleSlash ==
    Len(trace) >= MaxEvents =>
        /\ objectPath = DoubleSlashAddress
        /\ recursive
        /\ pc = "done" => result = "errBackend"
        /\ pc # "done" => ENABLED Next

====
